---- MODULE Spec2Model ----
(***************************************************************************)
(* A model of the schema AST helpers (schema/ast.rs) and of the token      *)
(* matchers of the grammar (helpers.rs) of graphql-parser.                 *)
(*                                                                         *)
(* Strings are TLA+ strings; Rust's byte-indexed, 0-based slices are       *)
(* translated to 1-based SubSeq on them.  Option<T> is a sequence of       *)
(* length at most one (<<>> is None, <<x>> is Some(x)); Result<T, E> is a  *)
(* record tagged "Ok" or "Err".                                            *)
(***************************************************************************)
EXTENDS Integers, Sequences, FiniteSets, TLC

VARIABLES
    locInput,      \* the &str handed to DirectiveLocation::from_str
    locVariant,    \* the DirectiveLocation the methods are called on
    locParsed,     \* Option<Result>: from_str(locInput)
    locPrinted,    \* Option<&str>:   locVariant.as_str()
    locReparsed,   \* Option<Result>: from_str(locVariant.as_str())
    locReprinted,  \* Option<&str>:   as_str of the variant from_str returned
    locIsQuery,    \* Option<bool>:   locVariant.is_query()
    locIsSchema,   \* Option<bool>:   locVariant.is_schema()
    tokens,        \* TokenStream: the token vector
    off,           \* TokenStream: the cursor, the 0-based index of the next token
    result,        \* Option: the last matcher application and what it returned
    taken,         \* the indices the successful applications consumed, in order
    astDef,        \* Option<TypeDefinition>: the type definition node built
    astExt,        \* Option<TypeExtension>: the type extension node built
    schDef,        \* Option<SchemaDefinition>
    schExt,        \* Option<SchemaExtension>
    accDef,        \* Option<Definition>: the definition d the accessors start from
    accInto,       \* Option: the into_* call that consumed d, and what it returned
    accAs,         \* the as_* calls made on the TypeDefinition t taken out of d
    accTo,         \* Option: the to_* call that consumed t, and what it returned
    accName        \* Option<&T>: t.name()

locVars == <<locInput, locVariant, locParsed, locPrinted, locReparsed,
             locReprinted, locIsQuery, locIsSchema>>

tokVars == <<tokens, off, result, taken>>

astVars == <<astDef, astExt, schDef, schExt>>

accVars == <<accDef, accInto, accAs, accTo, accName>>

vars == <<locVars, tokVars, astVars, accVars>>

None == <<>>
Some(x) == <<x>>
Ok(v) == [tag |-> "Ok", val |-> v]
Err(e) == [tag |-> "Err", err |-> e]

(***************************************************************************)
(* schema/ast.rs: DirectiveLocation                                        *)
(***************************************************************************)
ExecutableLocations ==
    {"Query", "Mutation", "Subscription", "Field", "FragmentDefinition",
     "FragmentSpread", "InlineFragment"}

TypeSystemLocations ==
    {"Schema", "Scalar", "Object", "FieldDefinition", "ArgumentDefinition",
     "Interface", "Union", "Enum", "EnumValue", "InputObject",
     "InputFieldDefinition", "VariableDefinition"}

DirectiveLocation == ExecutableLocations \cup TypeSystemLocations

InvalidDirectiveLocation == "InvalidDirectiveLocation"

as_str_samename(v) ==
    CASE v = "Query" -> "QUERY"
      [] v = "Mutation" -> "MUTATION"
      [] v = "Subscription" -> "SUBSCRIPTION"
      [] v = "Field" -> "FIELD"
      [] v = "FragmentDefinition" -> "FRAGMENT_DEFINITION"
      [] v = "FragmentSpread" -> "FRAGMENT_SPREAD"
      [] v = "InlineFragment" -> "INLINE_FRAGMENT"
      [] v = "Schema" -> "SCHEMA"
      [] v = "Scalar" -> "SCALAR"
      [] v = "Object" -> "OBJECT"
      [] v = "FieldDefinition" -> "FIELD"
      [] v = "ArgumentDefinition" -> "ARGUMENT_DEFINITION"
      [] v = "Interface" -> "INTERFACE"
      [] v = "Union" -> "UNION"
      [] v = "Enum" -> "ENUM"
      [] v = "EnumValue" -> "ENUM"
      [] v = "InputObject" -> "INPUT_OBJECT"
      [] v = "InputFieldDefinition" -> "INPUT_FIELD_DEFINITION"
      [] v = "VariableDefinition" -> "VARIABLE_DEFINITION"

as_str(v) ==
    CASE v = "Query" -> "QUERY"
      [] v = "Mutation" -> "MUTATION"
      [] v = "Subscription" -> "SUBSCRIPTION"
      [] v = "Field" -> "FIELD"
      [] v = "FragmentDefinition" -> "FRAGMENT_DEFINITION"
      [] v = "FragmentSpread" -> "FRAGMENT_SPREAD"
      [] v = "InlineFragment" -> "INLINE_FRAGMENT"
      [] v = "Schema" -> "SCHEMA"
      [] v = "Scalar" -> "SCALAR"
      [] v = "Object" -> "OBJECT"
      [] v = "FieldDefinition" -> "FIELD_DEFINITION"
      [] v = "ArgumentDefinition" -> "ARGUMENT_DEFINITION"
      [] v = "Interface" -> "INTERFACE"
      [] v = "Union" -> "UNION"
      [] v = "Enum" -> "ENUM"
      [] v = "EnumValue" -> "ENUM_VALUE"
      [] v = "InputObject" -> "INPUT_OBJECT"
      [] v = "InputFieldDefinition" -> "INPUT_FIELD_DEFINITION"
      [] v = "VariableDefinition" -> "VARIABLE_DEFINITION"

is_query_with_variables(v) ==
    CASE v \in {"Query", "Mutation", "Subscription", "Field",
                "FragmentDefinition", "FragmentSpread", "InlineFragment",
                "VariableDefinition"} -> TRUE
      [] v \in {"Schema", "Scalar", "Object", "FieldDefinition",
                "ArgumentDefinition", "Interface", "Union", "Enum",
                "EnumValue", "InputObject", "InputFieldDefinition"} -> FALSE

is_query(v) ==
    CASE v \in {"Query", "Mutation", "Subscription", "Field",
                "FragmentDefinition", "FragmentSpread", "InlineFragment"} -> TRUE
      [] v \in {"Schema", "Scalar", "Object", "FieldDefinition",
                "ArgumentDefinition", "Interface", "Union", "Enum",
                "EnumValue", "InputObject", "InputFieldDefinition",
                "VariableDefinition"} -> FALSE

is_schema_same(v) == is_query(v)

is_schema(v) == ~is_query(v)

from_str_lenient(s) ==
    CASE s \in {"QUERY", "query", "Query"} -> Ok("Query")
      [] s = "MUTATION" -> Ok("Mutation")
      [] s = "SUBSCRIPTION" -> Ok("Subscription")
      [] s \in {"FIELD", "Field"} -> Ok("Field")
      [] s = "FRAGMENT_DEFINITION" -> Ok("FragmentDefinition")
      [] s = "FRAGMENT_SPREAD" -> Ok("FragmentSpread")
      [] s = "INLINE_FRAGMENT" -> Ok("InlineFragment")
      [] s = "SCHEMA" -> Ok("Schema")
      [] s = "SCALAR" -> Ok("Scalar")
      [] s = "OBJECT" -> Ok("Object")
      [] s = "FIELD_DEFINITION" -> Ok("FieldDefinition")
      [] s = "ARGUMENT_DEFINITION" -> Ok("ArgumentDefinition")
      [] s = "INTERFACE" -> Ok("Interface")
      [] s = "UNION" -> Ok("Union")
      [] s = "ENUM" -> Ok("Enum")
      [] s = "ENUM_VALUE" -> Ok("EnumValue")
      [] s = "INPUT_OBJECT" -> Ok("InputObject")
      [] s = "INPUT_FIELD_DEFINITION" -> Ok("InputFieldDefinition")
      [] s = "VARIABLE_DEFINITION" -> Ok("VariableDefinition")
      [] OTHER -> Err(InvalidDirectiveLocation)

from_str(s) ==
    CASE s = "QUERY" -> Ok("Query")
      [] s = "MUTATION" -> Ok("Mutation")
      [] s = "SUBSCRIPTION" -> Ok("Subscription")
      [] s = "FIELD" -> Ok("Field")
      [] s = "FRAGMENT_DEFINITION" -> Ok("FragmentDefinition")
      [] s = "FRAGMENT_SPREAD" -> Ok("FragmentSpread")
      [] s = "INLINE_FRAGMENT" -> Ok("InlineFragment")
      [] s = "SCHEMA" -> Ok("Schema")
      [] s = "SCALAR" -> Ok("Scalar")
      [] s = "OBJECT" -> Ok("Object")
      [] s = "FIELD_DEFINITION" -> Ok("FieldDefinition")
      [] s = "ARGUMENT_DEFINITION" -> Ok("ArgumentDefinition")
      [] s = "INTERFACE" -> Ok("Interface")
      [] s = "UNION" -> Ok("Union")
      [] s = "ENUM" -> Ok("Enum")
      [] s = "ENUM_VALUE" -> Ok("EnumValue")
      [] s = "INPUT_OBJECT" -> Ok("InputObject")
      [] s = "INPUT_FIELD_DEFINITION" -> Ok("InputFieldDefinition")
      [] s = "VARIABLE_DEFINITION" -> Ok("VariableDefinition")
      [] OTHER -> Err(InvalidDirectiveLocation)

\* The strings handed to from_str: the names of the GraphQL grammar and
\* strings that are none of them (case variants, empty, padded, truncated).
LocationNames ==
    {"QUERY", "MUTATION", "SUBSCRIPTION", "FIELD", "FRAGMENT_DEFINITION",
     "FRAGMENT_SPREAD", "INLINE_FRAGMENT", "SCHEMA", "SCALAR", "OBJECT",
     "FIELD_DEFINITION", "ARGUMENT_DEFINITION", "INTERFACE", "UNION", "ENUM",
     "ENUM_VALUE", "INPUT_OBJECT", "INPUT_FIELD_DEFINITION",
     "VARIABLE_DEFINITION"}

UnknownNames ==
    {"query", "Query", "Field", "field", "", " QUERY", "QUERY ", "ENUMVALUE",
     "ENUM_", "FRAGMENT", "VARIABLE", "INPUT_OBJECT_TYPE", "enum_value"}

LocStrings == LocationNames \cup UnknownNames

LocIdle ==
    /\ locInput = ""
    /\ locVariant = "Query"
    /\ locParsed = None
    /\ locPrinted = None
    /\ locReparsed = None
    /\ locReprinted = None
    /\ locIsQuery = None
    /\ locIsSchema = None

TokIdle ==
    /\ tokens = <<>>
    /\ off = 0
    /\ result = None
    /\ taken = <<>>

AccIdle ==
    /\ accDef = None
    /\ accInto = None
    /\ accAs = {}
    /\ accTo = None
    /\ accName = None

AstIdle ==
    /\ astDef = None
    /\ astExt = None
    /\ schDef = None
    /\ schExt = None

LocInit ==
    /\ TokIdle
    /\ AstIdle
    /\ AccIdle
    /\ locInput \in LocStrings
    /\ locVariant \in DirectiveLocation
    /\ locParsed = None
    /\ locPrinted = None
    /\ locReparsed = None
    /\ locReprinted = None
    /\ locIsQuery = None
    /\ locIsSchema = None

\* from_str(locInput)
FromStrInput ==
    /\ locParsed = None
    /\ locParsed' = Some(from_str(locInput))
    /\ UNCHANGED <<locInput, locVariant, locPrinted, locReparsed,
                   locReprinted, locIsQuery, locIsSchema>>
    /\ UNCHANGED tokVars
    /\ UNCHANGED astVars
    /\ UNCHANGED accVars

\* locVariant.as_str()
AsStrVariant ==
    /\ locPrinted = None
    /\ locPrinted' = Some(as_str(locVariant))
    /\ UNCHANGED <<locInput, locVariant, locParsed, locReparsed,
                   locReprinted, locIsQuery, locIsSchema>>
    /\ UNCHANGED tokVars
    /\ UNCHANGED astVars
    /\ UNCHANGED accVars

\* from_str(locVariant.as_str())
FromStrPrinted ==
    /\ locPrinted # None
    /\ locReparsed = None
    /\ locReparsed' = Some(from_str(locPrinted[1]))
    /\ UNCHANGED <<locInput, locVariant, locParsed, locPrinted,
                   locReprinted, locIsQuery, locIsSchema>>
    /\ UNCHANGED tokVars
    /\ UNCHANGED astVars
    /\ UNCHANGED accVars

\* from_str(locInput)?.as_str()
AsStrParsed ==
    /\ locParsed # None
    /\ locParsed[1].tag = "Ok"
    /\ locReprinted = None
    /\ locReprinted' = Some(as_str(locParsed[1].val))
    /\ UNCHANGED <<locInput, locVariant, locParsed, locPrinted,
                   locReparsed, locIsQuery, locIsSchema>>
    /\ UNCHANGED tokVars
    /\ UNCHANGED astVars
    /\ UNCHANGED accVars

\* locVariant.is_query()
IsQuery ==
    /\ locIsQuery = None
    /\ locIsQuery' = Some(is_query(locVariant))
    /\ UNCHANGED <<locInput, locVariant, locParsed, locPrinted,
                   locReparsed, locReprinted, locIsSchema>>
    /\ UNCHANGED tokVars
    /\ UNCHANGED astVars
    /\ UNCHANGED accVars

\* locVariant.is_schema()
IsSchema ==
    /\ locIsSchema = None
    /\ locIsSchema' = Some(is_schema(locVariant))
    /\ UNCHANGED <<locInput, locVariant, locParsed, locPrinted,
                   locReparsed, locReprinted, locIsQuery>>
    /\ UNCHANGED tokVars
    /\ UNCHANGED astVars
    /\ UNCHANGED accVars

LocNext ==
    \/ FromStrInput
    \/ AsStrVariant
    \/ FromStrPrinted
    \/ AsStrParsed
    \/ IsQuery
    \/ IsSchema

SpecLoc == LocInit /\ [][LocNext]_vars

(***************************************************************************)
(* tokenizer: Kind, Token and the TokenStream cursor                       *)
(***************************************************************************)
MaxTokens == 2

Kind ==
    {"Punctuator", "Name", "IntValue", "FloatValue", "StringValue",
     "BlockString", "Description"}

Token(k, v) == [kind |-> k, value |-> v]

\* Tokens as the tokenizer produces them: a string token's value is the raw
\* source substring with both delimiters.
TokenSamples ==
    {Token("Punctuator", "{"),
     Token("Name", "on"), Token("Name", "On"), Token("Name", "true"),
     Token("IntValue", "1"), Token("FloatValue", "1.5"),
     Token("StringValue", "\"\""), Token("StringValue", "\"abc\""),
     Token("BlockString", "\"\"\"\"\"\""),
     Token("BlockString", "\"\"\"abc\"\"\""),
     Token("Description", "\"doc\"")}

\* The values punct and ident are built with.
MatchValues == {"{", "on", "true"}

TokenVectors == UNION {[1..n -> TokenSamples] : n \in 0..MaxTokens}

\* The stream as a matcher sees it.
TokenStream == [tokens |-> tokens, off |-> off]

\* peek / advance of the cursor: the current token and the stream one
\* token further, or the end-of-input error.
uncons(input) ==
    IF input.off < Len(input.tokens)
    THEN [res |-> Ok(input.tokens[input.off + 1]), off |-> input.off + 1]
    ELSE [res |-> Err("EndOfInput"), off |-> input.off]

\* The tokens of the stream: a predicate on tokens is handed to satisfy as
\* the set of these it holds of.
StreamTokens(input) == {input.tokens[i] : i \in 1..Len(input.tokens)}

\* combine::satisfy: take one token; succeed with it when the predicate
\* holds of it, fail without consuming otherwise (a failing branch is
\* restored to the saved position).  `read` lists the indices consumed.
satisfy(accepted, input) ==
    LET position == input.off
        u == uncons(input)
    IN  IF u.res.tag = "Ok"
        THEN IF u.res.val \in accepted
             THEN [res |-> u.res, off |-> u.off,
                   read |-> IF u.off > position THEN <<position>> ELSE <<>>]
             ELSE [res |-> Err("Unexpected"), off |-> position, read |-> <<>>]
        ELSE [res |-> u.res, off |-> position, read |-> <<>>]

\* Text::from(&str)
Text_from(s) == s

\* &s[a..=b] with 0-based byte indices, on a string of one-byte characters
str_index_inclusive(s, a, b) == SubSeq(s, a + 1, b + 1)

(***************************************************************************)
(* helpers.rs: the matchers                                                *)
(***************************************************************************)
kind(k) == [type |-> "TokenMatch", kind |-> k]

name == [type |-> "NameMatch"]

_string == [type |-> "StringMatch", block |-> FALSE]

_blockstring == [type |-> "StringMatch", block |-> TRUE]

punct(value) == [type |-> "Value", kind |-> "Punctuator", value |-> value]

ident(value) == [type |-> "Value", kind |-> "Name", value |-> value]

\* a matcher that looks at the current token and leaves it in the stream
TokenMatch_parse_lazy_peek(self, input) ==
    [satisfy({c \in StreamTokens(input) : c.kind = self.kind}, input)
        EXCEPT !.off = input.off, !.read = <<>>]

TokenMatch_parse_lazy(self, input) ==
    satisfy({c \in StreamTokens(input) : c.kind = self.kind}, input)

Value_parse_lazy_by_value(self, input) ==
    satisfy({c \in StreamTokens(input) : c.value = self.value}, input)

Value_parse_lazy(self, input) ==
    satisfy({c \in StreamTokens(input) :
                c.kind = self.kind /\ c.value = self.value}, input)

NameMatch_parse_lazy_no_keywords(self, input) ==
    LET t == satisfy({c \in StreamTokens(input) :
                        /\ c.kind = "Name"
                        /\ c.value \notin {"true", "false", "null"}}, input)
    IN  IF t.res.tag = "Ok"
        THEN [t EXCEPT !.res = Ok(Text_from(t.res.val.value))]
        ELSE t

\* satisfy(..).map(|t| S::from(t.value))
NameMatch_parse_lazy(self, input) ==
    LET t == satisfy({c \in StreamTokens(input) : c.kind = "Name"}, input)
    IN  IF t.res.tag = "Ok"
        THEN [t EXCEPT !.res = Ok(Text_from(t.res.val.value))]
        ELSE t

\* a string matcher that takes a string token of either kind
StringMatch_parse_lazy_any_string(self, input) ==
    LET t == satisfy({c \in StreamTokens(input) :
                        c.kind \in {"BlockString", "StringValue"}}, input)
    IN  IF t.res.tag = "Ok"
        THEN LET value == t.res.val.value
             IN  [t EXCEPT !.res =
                    Ok(IF self.block
                       THEN Text_from(str_index_inclusive(value, 3, Len(value) - 3))
                       ELSE Text_from(str_index_inclusive(value, 1, Len(value) - 1)))]
        ELSE t

\* satisfy(..).map(|t| S::from(&t.value[3..=len - 3]) or [1..=len - 1])
StringMatch_parse_lazy(self, input) ==
    LET t == satisfy({c \in StreamTokens(input) :
                        IF self.block
                        THEN c.kind = "BlockString"
                        ELSE c.kind = "StringValue"}, input)
    IN  IF t.res.tag = "Ok"
        THEN LET value == t.res.val.value
             IN  [t EXCEPT !.res =
                    Ok(IF self.block
                       THEN Text_from(str_index_inclusive(value, 3, Len(value) - 3))
                       ELSE Text_from(str_index_inclusive(value, 1, Len(value) - 1)))]
        ELSE t

TokInit ==
    /\ LocIdle
    /\ AstIdle
    /\ AccIdle
    /\ tokens \in TokenVectors
    /\ off = 0
    /\ result = None
    /\ taken = <<>>

\* What one application of matcher m at the cursor leaves in `result`.
Applied(call, arg, r) ==
    Some([call |-> call, arg |-> arg, at |-> off, res |-> r.res])

\* kind(k).parse_lazy(input)
ApplyKind ==
    \E k \in Kind :
        LET r == TokenMatch_parse_lazy(kind(k), TokenStream)
        IN  /\ result' = Applied("kind", k, r)
            /\ off' = r.off
            /\ taken' = taken \o r.read
            /\ UNCHANGED tokens
            /\ UNCHANGED locVars
            /\ UNCHANGED astVars
            /\ UNCHANGED accVars

\* punct(v).parse_lazy(input)
ApplyPunct ==
    \E v \in MatchValues :
        LET r == Value_parse_lazy(punct(v), TokenStream)
        IN  /\ result' = Applied("punct", v, r)
            /\ off' = r.off
            /\ taken' = taken \o r.read
            /\ UNCHANGED tokens
            /\ UNCHANGED locVars
            /\ UNCHANGED astVars
            /\ UNCHANGED accVars

\* ident(v).parse_lazy(input)
ApplyIdent ==
    \E v \in MatchValues :
        LET r == Value_parse_lazy(ident(v), TokenStream)
        IN  /\ result' = Applied("ident", v, r)
            /\ off' = r.off
            /\ taken' = taken \o r.read
            /\ UNCHANGED tokens
            /\ UNCHANGED locVars
            /\ UNCHANGED astVars
            /\ UNCHANGED accVars

\* name().parse_lazy(input)
ApplyName ==
    LET r == NameMatch_parse_lazy(name, TokenStream)
    IN  /\ result' = Applied("name", None, r)
        /\ off' = r.off
        /\ taken' = taken \o r.read
        /\ UNCHANGED tokens
        /\ UNCHANGED locVars
        /\ UNCHANGED astVars
        /\ UNCHANGED accVars

\* _string().parse_lazy(input)
ApplyString ==
    LET r == StringMatch_parse_lazy(_string, TokenStream)
    IN  /\ result' = Applied("_string", None, r)
        /\ off' = r.off
        /\ taken' = taken \o r.read
        /\ UNCHANGED tokens
        /\ UNCHANGED locVars
        /\ UNCHANGED astVars
        /\ UNCHANGED accVars

\* _blockstring().parse_lazy(input)
ApplyBlockString ==
    LET r == StringMatch_parse_lazy(_blockstring, TokenStream)
    IN  /\ result' = Applied("_blockstring", None, r)
        /\ off' = r.off
        /\ taken' = taken \o r.read
        /\ UNCHANGED tokens
        /\ UNCHANGED locVars
        /\ UNCHANGED astVars
        /\ UNCHANGED accVars

Next ==
    \/ ApplyKind
    \/ ApplyPunct
    \/ ApplyIdent
    \/ ApplyName
    \/ ApplyString
    \/ ApplyBlockString

Spec == TokInit /\ [][Next]_vars

(***************************************************************************)
(* schema/ast.rs: the type definition and type extension nodes             *)
(***************************************************************************)
\* The variants of enum TypeDefinition and of enum TypeExtension.
TypeDefinitionVariants ==
    {"Scalar", "Object", "Interface", "Union", "Enum", "InputObject"}

TypeExtensionVariants ==
    {"Scalar", "Object", "Interface", "Union", "Enum", "InputObject"}

\* The names the nodes are built with.
TypeNames == {"Foo", "Bar", "on"}

Pos_default == [line |-> 0, column |-> 0]

ScalarType_new(n) ==
    [position |-> Pos_default, description |-> None, name |-> n,
     directives |-> <<>>]

ScalarTypeExtension_new(n) ==
    [position |-> Pos_default, name |-> n, directives |-> <<>>]

ObjectType_new(n) ==
    [position |-> Pos_default, description |-> None, name |-> n,
     implements_interfaces |-> <<>>, directives |-> <<>>, fields |-> <<>>]

ObjectTypeExtension_new_described(n) ==
    [position |-> Pos_default, description |-> None, name |-> n,
     implements_interfaces |-> <<>>, directives |-> <<>>, fields |-> <<>>]

ObjectTypeExtension_new(n) ==
    [position |-> Pos_default, name |-> n,
     implements_interfaces |-> <<>>, directives |-> <<>>, fields |-> <<>>]

InterfaceType_new(n) ==
    [position |-> Pos_default, description |-> None, name |-> n,
     implements_interfaces |-> <<>>, directives |-> <<>>, fields |-> <<>>]

InterfaceTypeExtension_new(n) ==
    [position |-> Pos_default, name |-> n,
     implements_interfaces |-> <<>>, directives |-> <<>>, fields |-> <<>>]

UnionType_new(n) ==
    [position |-> Pos_default, description |-> None, name |-> n,
     directives |-> <<>>, types |-> <<>>]

UnionTypeExtension_new(n) ==
    [position |-> Pos_default, name |-> n, directives |-> <<>>,
     types |-> <<>>]

EnumType_new(n) ==
    [position |-> Pos_default, description |-> None, name |-> n,
     directives |-> <<>>, values |-> <<>>]

EnumTypeExtension_new(n) ==
    [position |-> Pos_default, name |-> n, directives |-> <<>>,
     values |-> <<>>]

InputObjectType_new(n) ==
    [position |-> Pos_default, description |-> None, name |-> n,
     directives |-> <<>>, fields |-> <<>>]

InputObjectTypeExtension_new(n) ==
    [position |-> Pos_default, name |-> n, directives |-> <<>>,
     fields |-> <<>>]

\* #[derive(Default)] of SchemaDefinition and SchemaExtension
SchemaDefinition_default ==
    [position |-> Pos_default, directives |-> <<>>, query |-> None,
     mutation |-> None, subscription |-> None]

SchemaExtension_default ==
    [position |-> Pos_default, directives |-> <<>>, query |-> None,
     mutation |-> None, subscription |-> None]

\* TypeDefinition::K(KType::new(n))
TypeDefinition(k, n) ==
    [variant |-> k,
     payload |->
        CASE k = "Scalar" -> ScalarType_new(n)
          [] k = "Object" -> ObjectType_new(n)
          [] k = "Interface" -> InterfaceType_new(n)
          [] k = "Union" -> UnionType_new(n)
          [] k = "Enum" -> EnumType_new(n)
          [] k = "InputObject" -> InputObjectType_new(n)]

\* TypeExtension::K(KTypeExtension::new(n))
TypeExtension(k, n) ==
    [variant |-> k,
     payload |->
        CASE k = "Scalar" -> ScalarTypeExtension_new(n)
          [] k = "Object" -> ObjectTypeExtension_new(n)
          [] k = "Interface" -> InterfaceTypeExtension_new(n)
          [] k = "Union" -> UnionTypeExtension_new(n)
          [] k = "Enum" -> EnumTypeExtension_new(n)
          [] k = "InputObject" -> InputObjectTypeExtension_new(n)]

AstInit ==
    /\ LocIdle
    /\ TokIdle
    /\ AstIdle
    /\ AccIdle

NewTypeDefinition ==
    \E k \in TypeDefinitionVariants, n \in TypeNames :
        /\ astDef' = Some(TypeDefinition(k, n))
        /\ UNCHANGED <<astExt, schDef, schExt>>
        /\ UNCHANGED locVars
        /\ UNCHANGED tokVars
        /\ UNCHANGED accVars

NewTypeExtension ==
    \E k \in TypeExtensionVariants, n \in TypeNames :
        /\ astExt' = Some(TypeExtension(k, n))
        /\ UNCHANGED <<astDef, schDef, schExt>>
        /\ UNCHANGED locVars
        /\ UNCHANGED tokVars
        /\ UNCHANGED accVars

NewSchemaDefinition ==
    /\ schDef' = Some(SchemaDefinition_default)
    /\ UNCHANGED <<astDef, astExt, schExt>>
    /\ UNCHANGED locVars
    /\ UNCHANGED tokVars
    /\ UNCHANGED accVars

NewSchemaExtension ==
    /\ schExt' = Some(SchemaExtension_default)
    /\ UNCHANGED <<astDef, astExt, schDef>>
    /\ UNCHANGED locVars
    /\ UNCHANGED tokVars
    /\ UNCHANGED accVars

AstNext ==
    \/ NewTypeDefinition
    \/ NewTypeExtension
    \/ NewSchemaDefinition
    \/ NewSchemaExtension

SpecAst == AstInit /\ [][AstNext]_vars

(***************************************************************************)
(* schema/ast.rs: Definition and the variant accessors                     *)
(***************************************************************************)
DefinitionVariants ==
    {"SchemaDefinition", "SchemaExtension", "TypeDefinition", "TypeExtension",
     "DirectiveDefinition"}

DirectiveDefinition_new(n) ==
    [position |-> Pos_default, description |-> None, name |-> n,
     arguments |-> <<>>, repeatable |-> FALSE, locations |-> <<>>]

\* Definition::V(payload)
Definition(v, payload) == [variant |-> v, payload |-> payload]

\* The definitions the accessors are called on: every variant, over every
\* node the constructors build.
Definitions ==
    {Definition("SchemaDefinition", SchemaDefinition_default),
     Definition("SchemaExtension", SchemaExtension_default)}
    \cup {Definition("TypeDefinition", TypeDefinition(k, n)) :
            k \in TypeDefinitionVariants, n \in TypeNames}
    \cup {Definition("TypeExtension", TypeExtension(k, n)) :
            k \in TypeExtensionVariants, n \in TypeNames}
    \cup {Definition("DirectiveDefinition", DirectiveDefinition_new(n)) :
            n \in TypeNames}

into_schema_definition(self) ==
    IF self.variant = "SchemaDefinition" THEN Some(self.payload) ELSE None

into_schema_extension(self) ==
    IF self.variant = "SchemaExtension" THEN Some(self.payload) ELSE None

into_type_definition(self) ==
    IF self.variant = "TypeDefinition" THEN Some(self.payload) ELSE None

\* an accessor whose match arm names the sibling variant
into_type_extension_of_definition(self) ==
    IF self.variant = "TypeDefinition" THEN Some(self.payload) ELSE None

into_type_extension(self) ==
    IF self.variant = "TypeExtension" THEN Some(self.payload) ELSE None

into_directive_definition(self) ==
    IF self.variant = "DirectiveDefinition" THEN Some(self.payload) ELSE None

TypeDefinition_name(self) ==
    CASE self.variant = "Scalar" -> self.payload.name
      [] self.variant = "Object" -> self.payload.name
      [] self.variant = "Interface" -> self.payload.name
      [] self.variant = "Union" -> self.payload.name
      [] self.variant = "Enum" -> self.payload.name
      [] self.variant = "InputObject" -> self.payload.name

as_scalar(self) ==
    IF self.variant = "Scalar" THEN Some(self.payload) ELSE None

as_object(self) ==
    IF self.variant = "Object" THEN Some(self.payload) ELSE None

as_interface(self) ==
    IF self.variant = "Interface" THEN Some(self.payload) ELSE None

as_union(self) ==
    IF self.variant = "Union" THEN Some(self.payload) ELSE None

as_enum(self) ==
    IF self.variant = "Enum" THEN Some(self.payload) ELSE None

as_input(self) ==
    IF self.variant = "InputObject" THEN Some(self.payload) ELSE None

to_scalar(self) ==
    IF self.variant = "Scalar" THEN Some(self.payload) ELSE None

to_object(self) ==
    IF self.variant = "Object" THEN Some(self.payload) ELSE None

to_interface(self) ==
    IF self.variant = "Interface" THEN Some(self.payload) ELSE None

to_union(self) ==
    IF self.variant = "Union" THEN Some(self.payload) ELSE None

to_enum(self) ==
    IF self.variant = "Enum" THEN Some(self.payload) ELSE None

to_input(self) ==
    IF self.variant = "InputObject" THEN Some(self.payload) ELSE None

\* The TypeDefinition t the as_*, to_* and name calls are made on: the one
\* into_type_definition took out of d.
TypeSubject ==
    IF /\ accInto # None
       /\ accInto[1].call = "into_type_definition"
    THEN accInto[1].res
    ELSE None

AccInit ==
    /\ LocIdle
    /\ TokIdle
    /\ AstIdle
    /\ accDef \in {Some(d) : d \in Definitions}
    /\ accInto = None
    /\ accAs = {}
    /\ accTo = None
    /\ accName = None

\* d.into_schema_definition(): d is moved into the call
IntoSchemaDefinition ==
    /\ accInto = None
    /\ accInto' = Some([call |-> "into_schema_definition",
                      res |-> into_schema_definition(accDef[1])])
    /\ UNCHANGED <<accDef, accAs, accTo, accName>>
    /\ UNCHANGED locVars
    /\ UNCHANGED tokVars
    /\ UNCHANGED astVars

\* d.into_schema_extension(): d is moved into the call
IntoSchemaExtension ==
    /\ accInto = None
    /\ accInto' = Some([call |-> "into_schema_extension",
                      res |-> into_schema_extension(accDef[1])])
    /\ UNCHANGED <<accDef, accAs, accTo, accName>>
    /\ UNCHANGED locVars
    /\ UNCHANGED tokVars
    /\ UNCHANGED astVars

\* d.into_type_definition(): d is moved into the call
IntoTypeDefinition ==
    /\ accInto = None
    /\ accInto' = Some([call |-> "into_type_definition",
                      res |-> into_type_definition(accDef[1])])
    /\ UNCHANGED <<accDef, accAs, accTo, accName>>
    /\ UNCHANGED locVars
    /\ UNCHANGED tokVars
    /\ UNCHANGED astVars

\* d.into_type_extension(): d is moved into the call
IntoTypeExtension ==
    /\ accInto = None
    /\ accInto' = Some([call |-> "into_type_extension",
                      res |-> into_type_extension(accDef[1])])
    /\ UNCHANGED <<accDef, accAs, accTo, accName>>
    /\ UNCHANGED locVars
    /\ UNCHANGED tokVars
    /\ UNCHANGED astVars

\* d.into_directive_definition(): d is moved into the call
IntoDirectiveDefinition ==
    /\ accInto = None
    /\ accInto' = Some([call |-> "into_directive_definition",
                      res |-> into_directive_definition(accDef[1])])
    /\ UNCHANGED <<accDef, accAs, accTo, accName>>
    /\ UNCHANGED locVars
    /\ UNCHANGED tokVars
    /\ UNCHANGED astVars

\* t.as_scalar(): t is borrowed
AsScalar ==
    /\ TypeSubject # None
    /\ accTo = None
    /\ accAs' = accAs \cup {[call |-> "as_scalar",
                          res |-> as_scalar(TypeSubject[1])]}
    /\ UNCHANGED <<accDef, accInto, accTo, accName>>
    /\ UNCHANGED locVars
    /\ UNCHANGED tokVars
    /\ UNCHANGED astVars

\* t.as_object(): t is borrowed
AsObject ==
    /\ TypeSubject # None
    /\ accTo = None
    /\ accAs' = accAs \cup {[call |-> "as_object",
                          res |-> as_object(TypeSubject[1])]}
    /\ UNCHANGED <<accDef, accInto, accTo, accName>>
    /\ UNCHANGED locVars
    /\ UNCHANGED tokVars
    /\ UNCHANGED astVars

\* t.as_interface(): t is borrowed
AsInterface ==
    /\ TypeSubject # None
    /\ accTo = None
    /\ accAs' = accAs \cup {[call |-> "as_interface",
                          res |-> as_interface(TypeSubject[1])]}
    /\ UNCHANGED <<accDef, accInto, accTo, accName>>
    /\ UNCHANGED locVars
    /\ UNCHANGED tokVars
    /\ UNCHANGED astVars

\* t.as_union(): t is borrowed
AsUnion ==
    /\ TypeSubject # None
    /\ accTo = None
    /\ accAs' = accAs \cup {[call |-> "as_union",
                          res |-> as_union(TypeSubject[1])]}
    /\ UNCHANGED <<accDef, accInto, accTo, accName>>
    /\ UNCHANGED locVars
    /\ UNCHANGED tokVars
    /\ UNCHANGED astVars

\* t.as_enum(): t is borrowed
AsEnum ==
    /\ TypeSubject # None
    /\ accTo = None
    /\ accAs' = accAs \cup {[call |-> "as_enum",
                          res |-> as_enum(TypeSubject[1])]}
    /\ UNCHANGED <<accDef, accInto, accTo, accName>>
    /\ UNCHANGED locVars
    /\ UNCHANGED tokVars
    /\ UNCHANGED astVars

\* t.as_input(): t is borrowed
AsInput ==
    /\ TypeSubject # None
    /\ accTo = None
    /\ accAs' = accAs \cup {[call |-> "as_input",
                          res |-> as_input(TypeSubject[1])]}
    /\ UNCHANGED <<accDef, accInto, accTo, accName>>
    /\ UNCHANGED locVars
    /\ UNCHANGED tokVars
    /\ UNCHANGED astVars

\* t.to_scalar(): t is moved into the call
ToScalar ==
    /\ TypeSubject # None
    /\ accTo = None
    /\ accTo' = Some([call |-> "to_scalar", res |-> to_scalar(TypeSubject[1])])
    /\ UNCHANGED <<accDef, accInto, accAs, accName>>
    /\ UNCHANGED locVars
    /\ UNCHANGED tokVars
    /\ UNCHANGED astVars

\* t.to_object(): t is moved into the call
ToObject ==
    /\ TypeSubject # None
    /\ accTo = None
    /\ accTo' = Some([call |-> "to_object", res |-> to_object(TypeSubject[1])])
    /\ UNCHANGED <<accDef, accInto, accAs, accName>>
    /\ UNCHANGED locVars
    /\ UNCHANGED tokVars
    /\ UNCHANGED astVars

\* t.to_interface(): t is moved into the call
ToInterface ==
    /\ TypeSubject # None
    /\ accTo = None
    /\ accTo' = Some([call |-> "to_interface", res |-> to_interface(TypeSubject[1])])
    /\ UNCHANGED <<accDef, accInto, accAs, accName>>
    /\ UNCHANGED locVars
    /\ UNCHANGED tokVars
    /\ UNCHANGED astVars

\* t.to_union(): t is moved into the call
ToUnion ==
    /\ TypeSubject # None
    /\ accTo = None
    /\ accTo' = Some([call |-> "to_union", res |-> to_union(TypeSubject[1])])
    /\ UNCHANGED <<accDef, accInto, accAs, accName>>
    /\ UNCHANGED locVars
    /\ UNCHANGED tokVars
    /\ UNCHANGED astVars

\* t.to_enum(): t is moved into the call
ToEnum ==
    /\ TypeSubject # None
    /\ accTo = None
    /\ accTo' = Some([call |-> "to_enum", res |-> to_enum(TypeSubject[1])])
    /\ UNCHANGED <<accDef, accInto, accAs, accName>>
    /\ UNCHANGED locVars
    /\ UNCHANGED tokVars
    /\ UNCHANGED astVars

\* t.to_input(): t is moved into the call
ToInput ==
    /\ TypeSubject # None
    /\ accTo = None
    /\ accTo' = Some([call |-> "to_input", res |-> to_input(TypeSubject[1])])
    /\ UNCHANGED <<accDef, accInto, accAs, accName>>
    /\ UNCHANGED locVars
    /\ UNCHANGED tokVars
    /\ UNCHANGED astVars

\* t.name(): t is borrowed
TypeName ==
    /\ TypeSubject # None
    /\ accTo = None
    /\ accName' = Some(TypeDefinition_name(TypeSubject[1]))
    /\ UNCHANGED <<accDef, accInto, accAs, accTo>>
    /\ UNCHANGED locVars
    /\ UNCHANGED tokVars
    /\ UNCHANGED astVars

AccNext ==
    \/ IntoSchemaDefinition
    \/ IntoSchemaExtension
    \/ IntoTypeDefinition
    \/ IntoTypeExtension
    \/ IntoDirectiveDefinition
    \/ AsScalar
    \/ AsObject
    \/ AsInterface
    \/ AsUnion
    \/ AsEnum
    \/ AsInput
    \/ ToScalar
    \/ ToObject
    \/ ToInterface
    \/ ToUnion
    \/ ToEnum
    \/ ToInput
    \/ TypeName

SpecAcc == AccInit /\ [][AccNext]_vars

(***************************************************************************)
(* Properties                                                              *)
(***************************************************************************)
QueryLocations == {v \in DirectiveLocation : is_query(v)}

SchemaLocations == {v \in DirectiveLocation : is_schema(v)}

\* the strings from_str accepts, and the strings as_str produces
AcceptedStrings == {s \in LocStrings : from_str(s).tag = "Ok"}

ProducedStrings == {as_str(v) : v \in DirectiveLocation}

\* C1: the DirectiveLocation <-> string mapping is bijective: parsing the
\* string of a variant gives that variant back, no other variant has the
\* same string, and printing a parsed variant gives the parsed string back.
C1_Bijective ==
    /\ (locPrinted # None /\ locReparsed # None)
          => locReparsed[1] = Ok(locVariant)
    /\ locPrinted # None
          => \A w \in DirectiveLocation \ {locVariant} : as_str(w) # locPrinted[1]
    /\ (locParsed # None /\ locReprinted # None)
          => locReprinted[1] = locInput

C1_Witness ==
    /\ locVariant = "InputFieldDefinition"
    /\ locPrinted = Some("INPUT_FIELD_DEFINITION")
    /\ locReparsed = Some(Ok("InputFieldDefinition"))
    /\ locInput = "ENUM_VALUE"
    /\ locParsed = Some(Ok("EnumValue"))
    /\ locReprinted = Some("ENUM_VALUE")

C3_UnknownFails ==
    (locParsed # None /\ locInput \notin ProducedStrings)
        => locParsed[1] = Err(InvalidDirectiveLocation)

C3_Witness ==
    /\ locInput \in {"query", "Field", "", " QUERY"}
    /\ locParsed = Some(Err(InvalidDirectiveLocation))

\* C4: exactly one of is_query and is_schema is true of a location, and
\* is_query is true exactly of Query, Mutation, Subscription, Field,
\* FragmentDefinition, FragmentSpread and InlineFragment.
C4_Partition ==
    /\ locIsQuery # None
          => (locIsQuery[1] <=>
                locVariant \in {"Query", "Mutation", "Subscription", "Field",
                                "FragmentDefinition", "FragmentSpread",
                                "InlineFragment"})
    /\ (locIsQuery # None /\ locIsSchema # None)
          => (locIsQuery[1] # locIsSchema[1])

C4_Witness ==
    /\ locVariant = "FragmentSpread"
    /\ locIsQuery = Some(TRUE)
    /\ locIsSchema = Some(FALSE)

\* the token the last application was applied at
At(r) == tokens[r.at + 1]

\* C5: the output of _string on a StringValue token is the token value
\* without its first and without its last character.
C5_StringStripsBothQuotes ==
    (/\ result # None
     /\ result[1].call = "_string"
     /\ result[1].res.tag = "Ok")
        => LET v == At(result[1]).value
           IN  result[1].res.val = SubSeq(v, 2, Len(v) - 1)

\* C6: the output of _blockstring on a BlockString token is the token value
\* without its first three and without its last three characters.
C6_BlockStringStripsBothDelimiters ==
    (/\ result # None
     /\ result[1].call = "_blockstring"
     /\ result[1].res.tag = "Ok")
        => LET v == At(result[1]).value
           IN  result[1].res.val = SubSeq(v, 4, Len(v) - 3)

\* C7: a type extension node has exactly the fields of the type definition
\* node of its kind minus `description`, TypeExtension has the variants of
\* TypeDefinition, SchemaExtension has the fields of SchemaDefinition, and
\* no extension node has a description field.
C7_ExtensionsMirror ==
    /\ TypeExtensionVariants = TypeDefinitionVariants
    /\ Cardinality(TypeDefinitionVariants) = 6
    /\ astDef # None => astDef[1].variant \in TypeDefinitionVariants
    /\ astExt # None
          => /\ astExt[1].variant \in TypeExtensionVariants
             /\ "description" \notin DOMAIN astExt[1].payload
    /\ (astDef # None /\ astExt # None /\ astDef[1].variant = astExt[1].variant)
          => /\ "description" \in DOMAIN astDef[1].payload
             /\ DOMAIN astExt[1].payload
                   = DOMAIN astDef[1].payload \ {"description"}
    /\ schExt # None => "description" \notin DOMAIN schExt[1]
    /\ (schDef # None /\ schExt # None)
          => DOMAIN schExt[1] = DOMAIN schDef[1]

C7_Witness ==
    /\ astDef # None
    /\ astExt # None
    /\ astDef[1].variant = "Object"
    /\ astExt[1].variant = "Object"
    /\ schDef # None
    /\ schExt # None

\* s is a contiguous part of t
IsSlice(s, t) ==
    \E i \in 1..(Len(t) + 1), j \in 0..Len(t) : SubSeq(t, i, j) = s

\* C8: a successful application returns a result built from the token at
\* the cursor and advances the cursor by exactly one token, so that n
\* successes consume the tokens 0..n-1 in order; an application at the end
\* of the input fails.
C8_CursorOrder ==
    /\ off = Len(taken)
    /\ off <= Len(tokens)
    /\ \A i \in 1..Len(taken) : taken[i] = i - 1
    /\ result # None
          => LET r == result[1]
             IN  /\ r.at >= Len(tokens) => r.res.tag = "Err"
                 /\ r.res.tag = "Ok"
                       => /\ r.at < Len(tokens)
                          /\ off = r.at + 1
                          /\ r.call \in {"kind", "punct", "ident"}
                                => r.res.val = At(r)
                          /\ r.call = "name" => r.res.val = At(r).value
                          /\ r.call \in {"_string", "_blockstring"}
                                => IsSlice(r.res.val, At(r).value)

\* two successes consumed tokens 0 and 1, and the next application met the
\* end of the input
C8_Witness ==
    /\ Len(tokens) = 2
    /\ taken = <<0, 1>>
    /\ off = 2
    /\ result # None
    /\ result[1].at = 2
    /\ result[1].res.tag = "Err"

\* C9: punct(v) accepts exactly the tokens of kind Punctuator with value v,
\* ident(v) exactly the tokens of kind Name with value v, and the accepted
\* token is returned unchanged.
C9_ValueMatch ==
    (/\ result # None
     /\ result[1].call \in {"punct", "ident"}
     /\ result[1].at < Len(tokens))
        => LET r == result[1]
               c == At(r)
               k == IF r.call = "punct" THEN "Punctuator" ELSE "Name"
           IN  /\ r.res.tag = "Ok" <=> (c.kind = k /\ c.value = r.arg)
               /\ r.res.tag = "Ok" => r.res.val = c

\* punct("on") at the Name token `on`: the right value, another kind
C9_Witness ==
    /\ result # None
    /\ result[1].call = "punct"
    /\ result[1].arg = "on"
    /\ result[1].at < Len(tokens)
    /\ At(result[1]) = Token("Name", "on")
    /\ result[1].res.tag = "Err"

\* C10: name() accepts a token iff its kind is Name, whatever its value,
\* and its output is exactly the token's value.
C10_NameMatch ==
    (/\ result # None
     /\ result[1].call = "name"
     /\ result[1].at < Len(tokens))
        => LET r == result[1]
               c == At(r)
           IN  /\ r.res.tag = "Ok" <=> c.kind = "Name"
               /\ r.res.tag = "Ok" => r.res.val = c.value

\* name() at the Name token `true`
C10_Witness ==
    /\ result # None
    /\ result[1].call = "name"
    /\ result[1].at < Len(tokens)
    /\ At(result[1]) = Token("Name", "true")
    /\ result[1].res = Ok("true")

\* C11: _string() accepts a token iff its kind is StringValue and
\* _blockstring() accepts a token iff its kind is BlockString, so that no
\* token is accepted by both and neither matcher consumes the other's
\* token; kind(k) accepts a token iff its kind is k.
C11_MatchByKind ==
    (result # None /\ result[1].at < Len(tokens))
        => LET r == result[1]
               c == At(r)
               accepted == r.res.tag = "Ok"
           IN  /\ r.call = "_string" => (accepted <=> c.kind = "StringValue")
               /\ r.call = "_blockstring" => (accepted <=> c.kind = "BlockString")
               /\ r.call = "kind" => (accepted <=> c.kind = r.arg)
               /\ (r.call = "_string" /\ c.kind = "BlockString")
                     => (~accepted /\ off = r.at)
               /\ (r.call = "_blockstring" /\ c.kind = "StringValue")
                     => (~accepted /\ off = r.at)

\* _string() at a BlockString token: refused, the token is still in the
\* stream
C11_Witness ==
    /\ result # None
    /\ result[1].call = "_string"
    /\ result[1].at < Len(tokens)
    /\ At(result[1]).kind = "BlockString"
    /\ result[1].res.tag = "Err"
    /\ off = result[1].at

\* the variant an accessor is named after
AccessorVariant(call) ==
    CASE call = "into_schema_definition" -> "SchemaDefinition"
      [] call = "into_schema_extension" -> "SchemaExtension"
      [] call = "into_type_definition" -> "TypeDefinition"
      [] call = "into_type_extension" -> "TypeExtension"
      [] call = "into_directive_definition" -> "DirectiveDefinition"
      [] call \in {"as_scalar", "to_scalar"} -> "Scalar"
      [] call \in {"as_object", "to_object"} -> "Object"
      [] call \in {"as_interface", "to_interface"} -> "Interface"
      [] call \in {"as_union", "to_union"} -> "Union"
      [] call \in {"as_enum", "to_enum"} -> "Enum"
      [] call \in {"as_input", "to_input"} -> "InputObject"

AsCalls ==
    {"as_scalar", "as_object", "as_interface", "as_union", "as_enum",
     "as_input"}

\* C12: an into_* accessor returns Some iff d is of its variant, and then
\* d's payload unchanged; of the six as_* accessors exactly one returns Some
\* on a TypeDefinition t, the one of t's variant, with t's payload; to_X(t)
\* is Some iff as_X(t) is and carries the same payload; t.name() is the
\* name field of that payload.
C12_Accessors ==
    /\ accDef # None => accDef[1].variant \in DefinitionVariants
    /\ accInto # None
          => LET d == accDef[1]
                 i == accInto[1]
             IN  /\ i.res # None <=> d.variant = AccessorVariant(i.call)
                 /\ i.res # None => i.res = Some(d.payload)
    /\ TypeSubject # None
          => LET t == accDef[1].payload
             IN  /\ t.variant \in TypeDefinitionVariants
                 /\ \A a \in accAs :
                       /\ a.res # None <=> t.variant = AccessorVariant(a.call)
                       /\ a.res # None => a.res = Some(t.payload)
                 /\ Cardinality({a \in accAs : a.res # None}) <= 1
                 /\ {a.call : a \in accAs} = AsCalls
                       => Cardinality({a \in accAs : a.res # None}) = 1
                 /\ accTo # None
                       => /\ accTo[1].res # None
                                <=> t.variant = AccessorVariant(accTo[1].call)
                          /\ accTo[1].res # None
                                => accTo[1].res = Some(t.payload)
                          /\ \A a \in accAs :
                                AccessorVariant(a.call) = AccessorVariant(accTo[1].call)
                                    => a.res = accTo[1].res
                 /\ accName # None
                       => /\ accName[1] = t.payload.name
                          /\ \A a \in accAs :
                                a.res # None => accName[1] = a.res[1].name

\* d = Definition::TypeDefinition(TypeDefinition::InputObject(..)) went
\* through into_type_definition, all six as_* accessors, name and to_input
C12_Witness ==
    /\ accDef # None
    /\ accDef[1].variant = "TypeDefinition"
    /\ accDef[1].payload.variant = "InputObject"
    /\ accInto = Some([call |-> "into_type_definition",
                       res |-> Some(accDef[1].payload)])
    /\ {a.call : a \in accAs} = AsCalls
    /\ accName = Some("Bar")
    /\ accTo = Some([call |-> "to_input",
                     res |-> Some(accDef[1].payload.payload)])

====
